---- MODULE Spec2Model ----
(***************************************************************************)
(* AeroMate backend (src/backend/app/app.py): the /chat, /chatstream and   *)
(* /history endpoints over a one-node LangGraph workflow                   *)
(* (START -> chatbot -> END) compiled with an InMemorySaver checkpointer.  *)
(*                                                                         *)
(* A request is one HTTP call.  /chat is an `async def` handler that calls *)
(* the blocking our_graph.invoke, so it keeps the event loop from its      *)
(* first to its last step (loopHolder).  /chatstream iterates              *)
(* our_graph.astream_events: the node runs in an executor thread and the   *)
(* event loop is free between two events, so other requests interleave.    *)
(***************************************************************************)
EXTENDS Integers, Sequences, FiniteSets, TLC

\* ------------------------------------------------------------------ bounds
MaxReqs == 2
NumThreads == 2

Reqs == 1..MaxReqs
Threads == 1..NumThreads
Prompts == {"hello", "lookup"}

\* a JSON body without the field
Missing == "<missing>"
NoThread == 0

\* the graph of build_graph has one chatbot step between START and END
RoundCeiling == 1

VARIABLES
    storage,     \* InMemorySaver: per checkpoint key, the checkpoints in id order
    loopHolder,  \* the request whose blocking handler occupies the event loop, 0 if none
    kind,        \* per request: "none", "chat" (/chat) or "stream" (/chatstream)
    thread,      \* per request: request.thread_id
    pc,          \* per request: position of its handler
    channel,     \* per request: the run's working copy of the "messages" channel
    gen,         \* per request: number of chunks the model has produced in this call
    rounds,      \* per request: number of model calls made in this turn
    yielded,     \* per request: the fragments event_stream has yielded
    status,      \* per request: HTTP status sent, 0 if none yet
    resp,        \* per request: body of the /chat answer ("response" or "detail")
    body,        \* per request: the JSON body as received
    tcall,       \* tools: the invocation in progress or last made
    tres,        \* tools: what that invocation gave back
    disk,        \* ingestion: the registry files present in DOCS_DIR
    db,          \* ingestion: per filename, how many times its chunks are in the vector store
    runs,        \* ingestion: number of create_vector_db runs made
    ingest_ret,  \* ingestion: what the last create_vector_db run returned
    ui           \* frontend: st.session_state.messages and the chat input handler's locals

chatVars == <<storage, loopHolder, kind, thread, pc, channel, gen, rounds, yielded, status, resp, body>>
toolVars == <<tcall, tres>>
ingestVars == <<disk, db, runs, ingest_ret>>
uiVars == <<ui>>
vars == <<chatVars, toolVars, ingestVars, uiVars>>

\* ------------------------------------------------------------- sequences
Last(s) == s[Len(s)]

RECURSIVE Flatten(_)
Flatten(ss) == IF ss = <<>> THEN <<>> ELSE Head(ss) \o Flatten(Tail(ss))

IsPrefix(s, t) == Len(s) <= Len(t) /\ SubSeq(t, 1, Len(s)) = s

\* --------------------------------------------------------------- messages
HumanMessage(r, p) ==
    [id |-> <<r, 0>>, type |-> "human", content |-> <<p>>, tool_calls |-> <<>>]

\* add_messages: a message whose id is already present replaces it in place,
\* any other message is appended
RECURSIVE add_messages(_, _)
add_messages(left, right) ==
    IF right = <<>> THEN left
    ELSE LET m == Head(right)
             hit == {i \in 1..Len(left) : left[i].id = m.id}
             merged == IF hit = {} THEN Append(left, m)
                       ELSE [i \in 1..Len(left) |-> IF i \in hit THEN m ELSE left[i]]
         IN add_messages(merged, Tail(right))

\* ------------------------------------------------------------ the model
\* The deterministic model stub: the chunks generated for a message list.
\* "lookup" makes the model request the knowledge-base tool.
llm_stream(msgs) ==
    LET p == Last(msgs).content
        follow == Len(msgs) > 1
    IN IF p = <<"lookup">>
       THEN << [content |-> <<>>,
                tool_calls |-> << [name |-> "get_aviation_info", id |-> "call_1"] >>] >>
       ELSE << [content |-> <<"Hi">>, tool_calls |-> <<>>],
               [content |-> <<>>, tool_calls |-> <<>>],
               [content |-> IF follow THEN <<"again", "!">> ELSE <<"!">>, tool_calls |-> <<>>] >>

\* the message llm.invoke returns: the chunks merged
llm_invoke(r, n, msgs) ==
    LET cs == llm_stream(msgs)
    IN [id |-> <<r, n>>, type |-> "ai",
        content |-> Flatten([i \in 1..Len(cs) |-> cs[i].content]),
        tool_calls |-> Flatten([i \in 1..Len(cs) |-> cs[i].tool_calls])]

\* chatbot_node: one model call on the whole message list
chatbot_node(r, n, msgs) == <<llm_invoke(r, n, msgs)>>

\* a conditional edge that sends a tool-calling answer back to chatbot
graph_next_loop(node, msgs) ==
    IF node = "START" \/ Last(msgs).tool_calls # <<>> THEN "chatbot" ELSE "END"

\* build_graph: START -> chatbot -> END
graph_next(node, msgs) == IF node = "START" THEN "chatbot" ELSE "END"

\* ------------------------------------------------------------ checkpointer
\* one key for every caller
checkpoint_key_shared(thread_id) == 1

\* config = {"configurable": {"thread_id": ...}}
checkpoint_key(thread_id) == thread_id

\* a saver that ignores the key and writes the checkpoint to every thread
put_everywhere(store, thread_id, messages, source) ==
    [k \in DOMAIN store |-> Append(store[k], [messages |-> messages, source |-> source])]

put(store, thread_id, messages, source) ==
    [store EXCEPT ![checkpoint_key(thread_id)] =
        Append(@, [messages |-> messages, source |-> source])]

\* our_graph.get_state: the values of the latest checkpoint, empty if none
get_state(store, thread_id) ==
    LET cps == store[checkpoint_key(thread_id)]
    IN IF cps = <<>> THEN [has_values |-> FALSE, messages |-> <<>>]
       ELSE [has_values |-> TRUE, messages |-> Last(cps).messages]

\* ----------------------------------------------------------------- /history
format_role(msg) == IF msg.type = "human" THEN "user" ELSE "assistant"

get_chat_history(thread_id) ==
    LET current_state == get_state(storage, thread_id)
    IN IF ~current_state.has_values
       THEN [status |-> 200, history |-> <<>>]
       ELSE [status |-> 200,
             history |-> [i \in 1..Len(current_state.messages) |->
                            [role |-> format_role(current_state.messages[i]),
                             content |-> current_state.messages[i].content]]]

\* ------------------------------------------------------------------- Init
ChatInit ==
    /\ storage = [t \in Threads |-> <<>>]
    /\ loopHolder = 0
    /\ kind = [r \in Reqs |-> "none"]
    /\ thread = [r \in Reqs |-> 0]
    /\ pc = [r \in Reqs |-> "idle"]
    /\ channel = [r \in Reqs |-> <<>>]
    /\ gen = [r \in Reqs |-> 0]
    /\ rounds = [r \in Reqs |-> 0]
    /\ yielded = [r \in Reqs |-> <<>>]
    /\ status = [r \in Reqs |-> 0]
    /\ resp = [r \in Reqs |-> <<>>]
    /\ body = [r \in Reqs |-> [message |-> Missing, thread_id |-> NoThread]]

\* requests arrive in the order of their numbers
NextFree(r) == pc[r] = "idle" /\ \A q \in Reqs : q < r => pc[q] # "idle"

\* the start of a graph run: load the latest checkpoint, apply the input
\* through the reducer, save the "input" checkpoint, schedule the first node
RunStart(r, t, p) ==
    LET loaded == get_state(storage, t).messages
        working == add_messages(loaded, <<HumanMessage(r, p)>>)
    IN /\ channel' = [channel EXCEPT ![r] = working]
       /\ storage' = put(storage, t, working, "input")
       /\ rounds' = [rounds EXCEPT ![r] = 1]
       /\ gen' = [gen EXCEPT ![r] = 0]


\* the end of a graph step: the node's writes go through the reducer, the
\* "loop" checkpoint is saved and the edge out of chatbot is followed
StepEnd(r, writes) ==
    LET working == add_messages(channel[r], writes)
        nxt == graph_next("chatbot", working)
    IN /\ channel' = [channel EXCEPT ![r] = working]
       /\ storage' = put(storage, thread[r], working, "loop")
       /\ gen' = [gen EXCEPT ![r] = 0]
       /\ rounds' = [rounds EXCEPT ![r] = IF nxt = "END" THEN @ ELSE @ + 1]
       /\ pc' = [pc EXCEPT ![r] = IF nxt = "END" THEN "done" ELSE "model"]

\* ------------------------------------------------------------ validation
\* a schema whose message field is optional
ChatRequest_optional_message(thread_id, message) == thread_id # NoThread

\* ChatRequest: message: str, thread_id: str, both required
ChatRequest(thread_id, message) == message # Missing /\ thread_id # NoThread

\* a POST to /chat or /chatstream whose body does not fit ChatRequest: the
\* framework answers 422 and neither handler is entered
reject_request(r, t, p) ==
    /\ NextFree(r)
    /\ loopHolder = 0
    /\ ~ChatRequest(t, p)
    /\ body' = [body EXCEPT ![r] = [message |-> p, thread_id |-> t]]
    /\ pc' = [pc EXCEPT ![r] = "rejected"]
    /\ status' = [status EXCEPT ![r] = 422]
    /\ resp' = [resp EXCEPT ![r] = <<"field required">>]
    /\ UNCHANGED <<storage, loopHolder, kind, thread, channel, gen, rounds, yielded>>
    /\ UNCHANGED <<toolVars, ingestVars, uiVars>>

\* ---------------------------------------------------------------- /chat
\* chat_endpoint up to the point where our_graph.invoke calls the model
chat_endpoint(r, t, p) ==
    /\ NextFree(r)
    /\ ChatRequest(t, p)
    /\ loopHolder = 0
    /\ kind' = [kind EXCEPT ![r] = "chat"]
    /\ thread' = [thread EXCEPT ![r] = t]
    /\ RunStart(r, t, p)
    /\ pc' = [pc EXCEPT ![r] = "model"]
    /\ loopHolder' = r
    /\ UNCHANGED <<yielded, status, resp>>
    /\ body' = [body EXCEPT ![r] = [message |-> p, thread_id |-> t]]
    /\ UNCHANGED <<toolVars, ingestVars, uiVars>>

\* the model answers: chatbot_node returns, the run commits and
\* chat_endpoint returns result["messages"][-1].content
chat_model_return(r) ==
    /\ kind[r] = "chat" /\ pc[r] = "model" /\ loopHolder = r
    /\ StepEnd(r, chatbot_node(r, rounds[r], channel[r]))
    /\ IF pc'[r] = "done"
       THEN /\ resp' = [resp EXCEPT ![r] = Last(channel'[r]).content]
            /\ status' = [status EXCEPT ![r] = 200]
            /\ loopHolder' = 0
       ELSE UNCHANGED <<resp, status, loopHolder>>
    /\ UNCHANGED <<kind, thread, yielded>>
    /\ UNCHANGED <<body, toolVars, ingestVars, uiVars>>

\* llm.invoke raises: the except branch answers HTTP 500 with str(e)
chat_model_fail(r) ==
    /\ kind[r] = "chat" /\ pc[r] = "model" /\ loopHolder = r
    /\ pc' = [pc EXCEPT ![r] = "failed"]
    /\ status' = [status EXCEPT ![r] = 500]
    /\ resp' = [resp EXCEPT ![r] = <<"model error">>]
    /\ loopHolder' = 0
    /\ UNCHANGED <<storage, kind, thread, channel, gen, rounds, yielded>>
    /\ UNCHANGED <<body, toolVars, ingestVars, uiVars>>

\* ----------------------------------------------------------- /chatstream
\* chat_endpoint_stream returns the StreamingResponse; nothing has run yet
chat_endpoint_stream(r, t, p) ==
    /\ NextFree(r)
    /\ ChatRequest(t, p)
    /\ loopHolder = 0
    /\ kind' = [kind EXCEPT ![r] = "stream"]
    /\ thread' = [thread EXCEPT ![r] = t]
    /\ channel' = [channel EXCEPT ![r] = <<HumanMessage(r, p)>>]
    /\ pc' = [pc EXCEPT ![r] = "accepted"]
    /\ status' = [status EXCEPT ![r] = 200]
    /\ UNCHANGED <<storage, loopHolder, gen, rounds, yielded, resp>>
    /\ body' = [body EXCEPT ![r] = [message |-> p, thread_id |-> t]]
    /\ UNCHANGED <<toolVars, ingestVars, uiVars>>

\* first iteration of event_stream: astream_events starts the run
event_stream_start(r) ==
    /\ kind[r] = "stream" /\ pc[r] = "accepted"
    /\ loopHolder = 0
    /\ RunStart(r, thread[r], Head(channel[r]).content[1])
    /\ pc' = [pc EXCEPT ![r] = "model"]
    /\ UNCHANGED <<loopHolder, kind, thread, yielded, status, resp>>
    /\ UNCHANGED <<body, toolVars, ingestVars, uiVars>>

\* a body that forgets to test the event's kind
event_stream_yield_any(event) ==
    IF event.content # <<>> THEN <<event.content>> ELSE <<>>

\* the body of the async for: what event_stream yields for one event
event_stream_yield(event) ==
    IF event.event = "on_chat_model_stream" /\ event.content # <<>>
    THEN <<event.content>>
    ELSE <<>>

\* the model produces its next chunk: an on_chat_model_stream event
on_chat_model_stream(r) ==
    /\ kind[r] = "stream" /\ pc[r] = "model"
    /\ loopHolder = 0
    /\ gen[r] < Len(llm_stream(channel[r]))
    /\ gen' = [gen EXCEPT ![r] = @ + 1]
    /\ yielded' = [yielded EXCEPT ![r] = @ \o event_stream_yield(
            [event |-> "on_chat_model_stream",
             content |-> llm_stream(channel[r])[gen[r] + 1].content])]
    /\ UNCHANGED <<storage, loopHolder, kind, thread, pc, channel, rounds, status, resp>>
    /\ UNCHANGED <<body, toolVars, ingestVars, uiVars>>

\* the model call ends: an on_chat_model_end event carrying the whole
\* message, then chatbot_node returns and the run commits
on_chat_model_end(r) ==
    /\ kind[r] = "stream" /\ pc[r] = "model"
    /\ loopHolder = 0
    /\ gen[r] = Len(llm_stream(channel[r]))
    /\ yielded' = [yielded EXCEPT ![r] = @ \o event_stream_yield(
            [event |-> "on_chat_model_end",
             content |-> llm_invoke(r, rounds[r], channel[r]).content])]
    /\ StepEnd(r, chatbot_node(r, rounds[r], channel[r]))
    /\ UNCHANGED <<loopHolder, kind, thread, status, resp>>
    /\ UNCHANGED <<body, toolVars, ingestVars, uiVars>>

\* the model call raises while streaming: the exception leaves event_stream
\* after the status line was sent
stream_model_fail(r) ==
    /\ kind[r] = "stream" /\ pc[r] = "model"
    /\ loopHolder = 0
    /\ pc' = [pc EXCEPT ![r] = "failed"]
    /\ UNCHANGED <<storage, loopHolder, kind, thread, channel, gen, rounds, yielded, status, resp>>
    /\ UNCHANGED <<body, toolVars, ingestVars, uiVars>>

\* the caller disconnects: the server cancels event_stream where it is suspended
client_disconnect(r) ==
    /\ kind[r] = "stream" /\ pc[r] \in {"accepted", "model"}
    /\ loopHolder = 0
    /\ pc' = [pc EXCEPT ![r] = "cancelled"]
    /\ UNCHANGED <<storage, loopHolder, kind, thread, channel, gen, rounds, yielded, status, resp>>
    /\ UNCHANGED <<body, toolVars, ingestVars, uiVars>>

\* ------------------------------------------------------------------- Next
Bodies == (Threads \cup {NoThread}) \X (Prompts \cup {Missing})

Next ==
    \/ \E r \in Reqs, b \in Bodies : reject_request(r, b[1], b[2])
    \/ \E r \in Reqs, b \in Bodies : chat_endpoint(r, b[1], b[2])
    \/ \E r \in Reqs : chat_model_return(r)
    \/ \E r \in Reqs : chat_model_fail(r)
    \/ \E r \in Reqs, b \in Bodies : chat_endpoint_stream(r, b[1], b[2])
    \/ \E r \in Reqs : event_stream_start(r)
    \/ \E r \in Reqs : on_chat_model_stream(r)
    \/ \E r \in Reqs : on_chat_model_end(r)
    \/ \E r \in Reqs : stream_model_fail(r)
    \/ \E r \in Reqs : client_disconnect(r)

\* the model call of a started turn returns or raises, and the event loop
\* runs every ready handler
Step(r) ==
    \/ chat_model_return(r)
    \/ chat_model_fail(r)
    \/ event_stream_start(r)
    \/ on_chat_model_stream(r)
    \/ on_chat_model_end(r)
    \/ stream_model_fail(r)
    \/ client_disconnect(r)

TypeOK ==
    /\ loopHolder \in 0..MaxReqs
    /\ \A r \in Reqs :
        /\ kind[r] \in {"none", "chat", "stream"}
        /\ pc[r] \in {"idle", "rejected", "accepted", "model", "done", "failed", "cancelled"}
        /\ status[r] \in {0, 200, 422, 500}



\* ================================================================ tools
\* Strings whose characters matter (filters, publishers, expressions) are
\* sequences of one-character strings; other texts are sequences of tokens.

UpperChars == <<"A", "B", "C", "D", "E", "F", "G", "H", "I", "J", "K", "L", "M",
                "N", "O", "P", "Q", "R", "S", "T", "U", "V", "W", "X", "Y", "Z">>
LowerChars == <<"a", "b", "c", "d", "e", "f", "g", "h", "i", "j", "k", "l", "m",
                "n", "o", "p", "q", "r", "s", "t", "u", "v", "w", "x", "y", "z">>

\* str.lower and str.upper, character by character
lower(str) ==
    [i \in 1..Len(str) |->
        IF \E k \in 1..26 : UpperChars[k] = str[i]
        THEN LowerChars[CHOOSE k \in 1..26 : UpperChars[k] = str[i]]
        ELSE str[i]]

upper(str) ==
    [i \in 1..Len(str) |->
        IF \E k \in 1..26 : LowerChars[k] = str[i]
        THEN UpperChars[CHOOSE k \in 1..26 : LowerChars[k] = str[i]]
        ELSE str[i]]

\* ingest.py FILE_REGISTRY, in insertion order
FILE_REGISTRY ==
    <<
       [filename |-> "BCAS permitted and prohibited items list.pdf",
        publisher |-> <<"B", "C", "A", "S">>, type |-> "Regulation"],
       [filename |-> "DGCA - D3M-M6.pdf",
        publisher |-> <<"D", "G", "C", "A">>, type |-> "Regulation"],
       [filename |-> "DGCA - D3M-M1.pdf",
        publisher |-> <<"D", "G", "C", "A">>, type |-> "Regulation"],
       [filename |-> "DGCA - D3M-M2.pdf",
        publisher |-> <<"D", "G", "C", "A">>, type |-> "Regulation"],
       [filename |-> "DGCA - D3M-M4.pdf",
        publisher |-> <<"D", "G", "C", "A">>, type |-> "Regulation"],
       [filename |-> "Ministry of Civil Aviation - Passenger Charter.pdf",
        publisher |-> <<"M", "o", "C", "A">>, type |-> "Charter"],
       [filename |-> "IndiGo - Conditions of Carriage - Domestic.pdf",
        publisher |-> <<"I", "n", "d", "i", "G", "o">>, type |-> "Policy"],
       [filename |-> "IndiGo - Conditions of Carriage - International.pdf",
        publisher |-> <<"I", "n", "d", "i", "G", "o">>, type |-> "Policy"],
       [filename |-> "Air India - Conditions of Carriage.pdf",
        publisher |-> <<"A", "i", "r", " ", "I", "n", "d", "i", "a">>, type |-> "Policy"]
    >>

RegistryFiles == {FILE_REGISTRY[i].filename : i \in 1..Len(FILE_REGISTRY)}
RegistryPublishers == {FILE_REGISTRY[i].publisher : i \in 1..Len(FILE_REGISTRY)}

\* the outcome of one tool invocation
Returned(text, searches, evaluated) ==
    [evaluated |-> evaluated, outcome |-> "text", searches |-> searches, text |-> text]
Raised(error) ==
    [evaluated |-> FALSE, outcome |-> "raised", searches |-> <<>>, text |-> <<error>>]

\* --- tools.py
\* get_web_search: the DuckDuckGo call is made outside any try
get_web_search(query, ddg) ==
    IF ddg = "ok" THEN Returned(<<"search results for", query>>, <<>>, FALSE)
    ELSE Raised(ddg)

get_stock_price(ticker, yf) ==
    IF yf = "ok"
    THEN Returned(<<"The current price of", ticker, "is", "price", "currency">>, <<>>, FALSE)
    ELSE Returned(<<"Error fetching stock price for", ticker, ":", yf>>, <<>>, FALSE)

get_currency_rate(from_currency, to_currency, yf) ==
    IF yf = "empty"
    THEN Returned(<<"Could not find exchange rate for", from_currency, "to", to_currency>>,
                  <<>>, FALSE)
    ELSE IF yf = "ok"
    THEN Returned(<<"1", from_currency, "=", "rate", to_currency>>, <<>>, FALSE)
    ELSE Returned(<<"Error fetching rate for", from_currency, to_currency, ":", yf>>,
                  <<>>, FALSE)

get_flight_details(departure_id, arrival_id, date, api_key, serp) ==
    IF ~api_key
    THEN Returned(<<"Error: SERPAPI_KEY is missing in environment variables.">>, <<>>, FALSE)
    ELSE IF serp = "error_field"
    THEN Returned(<<"Google Flights Error:", "error">>, <<>>, FALSE)
    ELSE IF serp = "no_flights"
    THEN Returned(<<"No flights found for this date/route.">>, <<>>, FALSE)
    ELSE IF serp = "ok"
    THEN Returned(<<"Flights from", departure_id, "to", arrival_id, "on", date>>, <<>>, FALSE)
    ELSE Returned(<<"Error connecting to Google Flights:", serp>>, <<>>, FALSE)

\* get_system_stats: the psutil calls are made outside any try
get_system_stats(psutil) ==
    IF psutil = "ok"
    THEN Returned(<<"System Status", "OS", "CPU Usage", "RAM", "Disk Free">>, <<>>, FALSE)
    ELSE Raised(psutil)

\* --- get_calculator
allowed_chars ==
    {"0", "1", "2", "3", "4", "5", "6", "7", "8", "9", "+", "-", "*", "/", "(", ")", ".", " "}

\* a test that passes as soon as one character is allowed
some_char_allowed(expression) ==
    \E i \in 1..Len(expression) : expression[i] \in allowed_chars

\* all(char in allowed_chars for char in expression)
all_chars_allowed(expression) ==
    \A i \in 1..Len(expression) : expression[i] \in allowed_chars

\* eval is the interpreter's: ev is what it does with the expression, a value
\* or an exception (SyntaxError, ZeroDivisionError, TypeError, ...)
get_calculator(expression, ev) ==
    IF ~all_chars_allowed(expression)
    THEN Returned(<<"Error: Invalid characters in math expression. Only numbers and basic operators allowed.">>,
                  <<>>, FALSE)
    ELSE IF ev.kind = "value"
    THEN Returned(<<"Result:", ev.what>>, <<>>, TRUE)
    ELSE Returned(<<"Calculation Error:", ev.what>>, <<>>, TRUE)

\* --- retriever.py
\* search_kwargs = {"k": 8}
K == 8

\* the filter_map of get_aviation_info
filter_map ==
    <<
       [key |-> <<"i", "n", "d", "i", "g", "o">>, value |-> <<"I", "n", "d", "i", "G", "o">>],
       [key |-> <<"a", "i", "r", " ", "i", "n", "d", "i", "a">>, value |-> <<"A", "i", "r", " ", "I", "n", "d", "i", "a">>],
       [key |-> <<"a", "i", "r", "i", "n", "d", "i", "a">>, value |-> <<"A", "i", "r", " ", "I", "n", "d", "i", "a">>],
       [key |-> <<"d", "g", "c", "a">>, value |-> <<"D", "G", "C", "A">>],
       [key |-> <<"b", "c", "a", "s">>, value |-> <<"B", "C", "A", "S">>],
       [key |-> <<"s", "e", "c", "u", "r", "i", "t", "y">>, value |-> <<"B", "C", "A", "S">>]
    >>

\* filter_map.get(airline_filter.lower(), airline_filter)
clean_filter(airline_filter) ==
    LET key == lower(airline_filter)
        hit == {i \in 1..Len(filter_map) : filter_map[i].key = key}
    IN IF hit = {} THEN airline_filter ELSE filter_map[CHOOSE i \in hit : TRUE].value

\* the airline_filter values the docstring of get_aviation_info lists
DocumentedFilters ==
    {
      <<"I", "n", "d", "i", "G", "o">>,
      <<"A", "i", "r", " ", "I", "n", "d", "i", "a">>,
      <<"D", "G", "C", "A">>,
      <<"B", "C", "A", "S">>,
      <<"M", "i", "n", "i", "s", "t", "r", "y", " ", "o", "f", " ", "C", "i", "v", "i", "l", " ", "A", "v", "i", "a", "t", "i", "o", "n">>
    }

\* an airline_filter argument: None, or a string
NoneFilter == [given |-> FALSE, value |-> <<>>]
StrFilter(str) == [given |-> TRUE, value |-> str]

\* truthiness of the argument: None and "" are falsy
truthy(airline_filter) == airline_filter.given /\ airline_filter.value # <<>>

\* retriever.invoke(query): the k best chunks of the store (one chunk per
\* embedded file here, in registry order) whose publisher passes the filter;
\* search_kwargs is [filtered |-> BOOLEAN, publisher |-> string]
RECURSIVE first_k(_, _)
first_k(docs, k) ==
    IF docs = <<>> \/ k = 0 THEN <<>>
    ELSE <<Head(docs)>> \o first_k(Tail(docs), k - 1)

retriever_invoke(kb_files, search_kwargs) ==
    first_k(SelectSeq(FILE_REGISTRY,
                LAMBDA d : /\ d.filename \in kb_files
                           /\ (search_kwargs.filtered => d.publisher = search_kwargs.publisher)),
            K)

\* a fallback that fires on every empty result
fallback_on_empty(docs, airline_filter) == docs = <<>>

\* if not docs and airline_filter
fallback(docs, airline_filter) == docs = <<>> /\ truthy(airline_filter)

\* "Source: {publisher} ({type}) | {page_content}" per document; the filename
\* stands for the chunk's text
format_docs(docs) ==
    Flatten([i \in 1..Len(docs) |->
                <<"Source:", docs[i].publisher, docs[i].type, docs[i].filename>>])

\* get_aviation_info.  kb is the module's vector_store: offline (None) or the
\* embedded files; fail_at is the number of the retriever call that raises
\* (0: none).  searches logs every retriever call made.
get_aviation_info(query, airline_filter, kb, fail_at) ==
    IF ~kb.online
    THEN Returned(<<"Error: Knowledge base is offline.">>, <<>>, FALSE)
    ELSE
    LET kwargs1 == IF truthy(airline_filter)
                   THEN [filtered |-> TRUE, publisher |-> clean_filter(airline_filter.value)]
                   ELSE [filtered |-> FALSE, publisher |-> <<>>]
        docs1 == retriever_invoke(kb.files, kwargs1)
        log1 == [hits |-> IF fail_at = 1 THEN 0 ELSE Len(docs1),
                 kwargs |-> kwargs1, raised |-> fail_at = 1]
        kwargs2 == [filtered |-> FALSE, publisher |-> <<>>]
        docs2 == retriever_invoke(kb.files, kwargs2)
        log2 == [hits |-> IF fail_at = 2 THEN 0 ELSE Len(docs2),
                 kwargs |-> kwargs2, raised |-> fail_at = 2]
    IN IF fail_at = 1
       THEN Returned(<<"Retrieval Error:", "e">>, <<log1>>, FALSE)
       ELSE IF fallback(docs1, airline_filter)
       THEN IF fail_at = 2
            THEN Returned(<<"Retrieval Error:", "e">>, <<log1, log2>>, FALSE)
            ELSE IF docs2 = <<>>
            THEN Returned(<<"No relevant documents found in the database.">>,
                          <<log1, log2>>, FALSE)
            ELSE Returned(format_docs(docs2), <<log1, log2>>, FALSE)
       ELSE IF docs1 = <<>>
       THEN Returned(<<"No relevant documents found in the database.">>, <<log1>>, FALSE)
       ELSE Returned(format_docs(docs1), <<log1>>, FALSE)

\* --- MCP/mcp_server.py and backend/app/mcp.py
BACKEND_BASE_URL == "http://localhost:8000"
MEDIA_DIR == "/app/media"

\* execute_manim_code: render is what manim did (mp4: exit code 0 and an MP4
\* found; no_mp4: exit code 0, none found; failed: other exit code; any other
\* value: an exception).  A text is its pieces in order.
execute_manim_code(manim_code, render) ==
    IF render = "mp4"
    THEN <<"SYSTEM_NOTE: The animation was successfully generated.",
           "The video URL is:", MEDIA_DIR, "/run_id/media/videos/scene/1080p60/Scene.mp4",
           "INSTRUCTION: You MUST share this URL to the user in your final response.">>
    ELSE IF render = "no_mp4"
    THEN <<"Execution successful, but could not locate MP4 file.">>
    ELSE IF render = "failed"
    THEN <<"Execution failed:", "stderr">>
    ELSE <<"Error during execution:", render>>

\* output_text.split("SUCCESS_VIDEO_PATH:")[1].strip()
after_marker(text, marker) ==
    LET at == CHOOSE i \in 1..Len(text) :
                text[i] = marker /\ \A j \in 1..(i - 1) : text[j] # marker
        rest == SubSeq(text, at + 1, Len(text))
        nxt == {i \in 1..Len(rest) : rest[i] = marker}
    IN IF nxt = {} THEN rest
       ELSE SubSeq(rest, 1, (CHOOSE i \in nxt : \A j \in nxt : i <= j) - 1)

\* generate_manim_animation: conn is what the SSE connection did (ok,
\* refused, or another exception)
generate_manim_animation(manim_code, conn, render) ==
    IF conn = "refused"
    THEN Returned(<<"Error: Could not connect to Manim Docker container. Is it running on port 9000?">>,
                  <<>>, FALSE)
    ELSE IF conn # "ok"
    THEN Returned(<<"Error executing Manim animation:", conn>>, <<>>, FALSE)
    ELSE
    LET output_text == execute_manim_code(manim_code, render)
    IN IF \E i \in 1..Len(output_text) : output_text[i] = "SUCCESS_VIDEO_PATH:"
       THEN LET internal_path == after_marker(output_text, "SUCCESS_VIDEO_PATH:")
            IN IF \E i \in 1..Len(internal_path) : internal_path[i] = MEDIA_DIR
               THEN Returned(<<"Animation generated successfully! Available at -",
                               BACKEND_BASE_URL, "/assets">>
                             \o SelectSeq(internal_path, LAMBDA x : x # MEDIA_DIR),
                             <<>>, FALSE)
               ELSE Returned(<<"Error: Unexpected video path format received from Manim server.">>,
                             <<>>, FALSE)
       ELSE Returned(<<"Error: Manim server did not return a video path.">>, <<>>, FALSE)

\* --- one invocation of a registered tool, with its arguments and with what
\* its external dependency does
Invoke(tool, args, env, result) ==
    /\ tcall.tool = "none"
    /\ tcall' = [args |-> args, env |-> env, tool |-> tool]
    /\ tres' = result
    /\ UNCHANGED <<chatVars, ingestVars, uiVars>>

call_get_web_search(ddg) ==
    Invoke("get_web_search", <<"query">>, <<ddg>>, get_web_search("query", ddg))

call_get_stock_price(yf) ==
    Invoke("get_stock_price", <<"AAPL">>, <<yf>>, get_stock_price("AAPL", yf))

call_get_currency_rate(yf) ==
    Invoke("get_currency_rate", <<"USD", "INR">>, <<yf>>, get_currency_rate("USD", "INR", yf))

call_get_flight_details(api_key, serp) ==
    Invoke("get_flight_details", <<"BOM", "DXB", "2025-12-25">>, <<api_key, serp>>,
           get_flight_details("BOM", "DXB", "2025-12-25", api_key, serp))

call_get_system_stats(psutil) ==
    Invoke("get_system_stats", <<>>, <<psutil>>, get_system_stats(psutil))

call_get_calculator(expression, ev) ==
    Invoke("get_calculator", expression, ev, get_calculator(expression, ev))

call_get_aviation_info(airline_filter, kb, fail_at) ==
    Invoke("get_aviation_info", airline_filter, [fail_at |-> fail_at, kb |-> kb],
           get_aviation_info("query", airline_filter, kb, fail_at))

call_generate_manim_animation(conn, render) ==
    Invoke("generate_manim_animation", <<"scene.py">>, [conn |-> conn, render |-> render],
           generate_manim_animation("scene.py", conn, render))

\* the inputs of the tools
MaxKbFiles == 2
MaxExprLen == 2
ExprChars == {"1", "0", "/", " ", "a", "_"}
Expressions == UNION {[1..n -> ExprChars] : n \in 0..MaxExprLen}
EvalOutcomes == {[kind |-> "value", what |-> "2"],
                 [kind |-> "exception", what |-> "SyntaxError"],
                 [kind |-> "exception", what |-> "ZeroDivisionError"]}
FilterInputs ==
    {NoneFilter, StrFilter(<<>>),
     StrFilter(<<"s", "e", "c", "u", "r", "i", "t", "y">>),
     StrFilter(<<"V", "i", "s", "t", "a", "r", "a">>)}
    \cup {StrFilter(f) : f \in DocumentedFilters}
    \cup {StrFilter(lower(f)) : f \in DocumentedFilters}
    \cup {StrFilter(upper(f)) : f \in DocumentedFilters}
KbStates ==
    {[files |-> {}, online |-> FALSE]}
    \cup {[files |-> F, online |-> TRUE] :
            F \in {G \in SUBSET RegistryFiles : Cardinality(G) <= MaxKbFiles}}

ToolNext ==
    \/ \E ddg \in {"ok", "RatelimitException"} : call_get_web_search(ddg)
    \/ \E yf \in {"ok", "ConnectionError"} : call_get_stock_price(yf)
    \/ \E yf \in {"ok", "empty", "ConnectionError"} : call_get_currency_rate(yf)
    \/ \E api_key \in BOOLEAN, serp \in {"ok", "error_field", "no_flights", "ConnectionError"} :
        call_get_flight_details(api_key, serp)
    \/ \E psutil \in {"ok", "PermissionError"} : call_get_system_stats(psutil)
    \/ \E expression \in Expressions, ev \in EvalOutcomes : call_get_calculator(expression, ev)
    \/ \E airline_filter \in FilterInputs, kb \in KbStates, fail_at \in 0..2 :
        call_get_aviation_info(airline_filter, kb, fail_at)
    \/ \E conn \in {"ok", "refused", "TimeoutError"},
          render \in {"mp4", "no_mp4", "failed", "OSError"} :
        call_generate_manim_animation(conn, render)

ToolInit ==
    /\ tcall = [args |-> <<>>, env |-> <<>>, tool |-> "none"]
    /\ tres = Returned(<<>>, <<>>, FALSE)

\* ============================================================ ingestion
MaxDiskFiles == 2
MaxRuns == 2

\* get_existing_files_in_db: the filenames found in the store's metadata;
\* the empty set when DB_DIR does not exist or when opening or reading the
\* store raises (the embeddings client cannot be built without the API key)
get_existing_files_in_db(store, api_key, chroma) ==
    IF \A f \in RegistryFiles : store[f] = 0 THEN {}
    ELSE IF ~api_key \/ chroma # "ok" THEN {}
    ELSE {f \in RegistryFiles : store[f] > 0}

\* load_and_process_documents: the registry files, in order, that are not
\* yet embedded, exist in DOCS_DIR and load (a corrupt file is logged and
\* dropped); a file stands for its pages
load_and_process_documents(existing_files, files) ==
    SelectSeq([i \in 1..Len(FILE_REGISTRY) |-> FILE_REGISTRY[i].filename],
              LAMBDA f : f \notin existing_files /\ files[f] = "pdf")

\* a file is put into DOCS_DIR
put_file(f, content) ==
    /\ disk[f] = "absent"
    /\ Cardinality({g \in RegistryFiles : disk[g] # "absent"}) < MaxDiskFiles
    /\ disk' = [disk EXCEPT ![f] = content]
    /\ UNCHANGED <<db, runs, ingest_ret>>
    /\ UNCHANGED <<chatVars, toolVars, uiVars>>

\* one run of create_vector_db; ingest_ret is what the run returned (or the
\* error it raised) and the DOCS_DIR it saw; a file's chunks count as one
create_vector_db(api_key, chroma) ==
    /\ runs < MaxRuns
    /\ runs' = runs + 1
    /\ LET existing_files == get_existing_files_in_db(db, api_key, chroma)
           docs == load_and_process_documents(existing_files, disk)
       IN IF docs = <<>>
          THEN /\ ingest_ret' = [status |-> "skipped", count |-> 0, disk |-> disk]
               /\ db' = db
          ELSE IF ~api_key
          THEN /\ ingest_ret' = [status |-> "ValueError", count |-> 0, disk |-> disk]
               /\ db' = db
          ELSE /\ ingest_ret' = [status |-> "success", chunks |-> Len(docs), disk |-> disk]
               /\ db' = [f \in RegistryFiles |->
                            IF \E i \in 1..Len(docs) : docs[i] = f THEN db[f] + 1 ELSE db[f]]
    /\ UNCHANGED disk
    /\ UNCHANGED <<chatVars, toolVars, uiVars>>

IngestNext ==
    \/ \E f \in RegistryFiles, content \in {"pdf", "corrupt"} : put_file(f, content)
    \/ \E api_key \in BOOLEAN, chroma \in {"ok", "error"} : create_vector_db(api_key, chroma)

IngestInit ==
    /\ disk = [f \in RegistryFiles |-> "absent"]
    /\ db = [f \in RegistryFiles |-> 0]
    /\ runs = 0
    /\ ingest_ret = [status |-> "none", count |-> 0, disk |-> [f \in RegistryFiles |-> "absent"]]

\* ============================================================== frontend
MaxUiTurns == 2

\* what the backend streams for a prompt: the non-empty fragments of the answer
stream_of(prompt) ==
    LET cs == llm_stream(<<HumanMessage(0, prompt)>>)
    IN SelectSeq([i \in 1..Len(cs) |-> cs[i].content], LAMBDA c : c # <<>>)

\* the chat input handler up to requests.post: the prompt is shown and recorded
ui_submit(prompt) ==
    /\ ui.pc = "idle"
    /\ Len(ui.messages) < 2 * MaxUiTurns
    /\ ui' = [ui EXCEPT !.messages = Append(@, [role |-> "user", content |-> <<prompt>>]),
                        !.full_response = <<>>,
                        !.incoming = stream_of(prompt),
                        !.state = "running",
                        !.pc = "posted"]
    /\ UNCHANGED <<chatVars, toolVars, ingestVars>>

\* the response arrives with its status code
ui_response(status_code) ==
    /\ ui.pc = "posted"
    /\ ui' = IF status_code = 200
             THEN [ui EXCEPT !.pc = "streaming"]
             ELSE [ui EXCEPT !.pc = "finish", !.state = "error"]
    /\ UNCHANGED <<chatVars, toolVars, ingestVars>>

\* one iteration of iter_content
ui_chunk ==
    /\ ui.pc = "streaming"
    /\ ui.incoming # <<>>
    /\ ui' = [ui EXCEPT !.full_response = @ \o Head(ui.incoming),
                        !.incoming = Tail(@)]
    /\ UNCHANGED <<chatVars, toolVars, ingestVars>>

\* the body ends: "Response Ready"
ui_stream_end ==
    /\ ui.pc = "streaming"
    /\ ui.incoming = <<>>
    /\ ui' = [ui EXCEPT !.pc = "finish", !.state = "complete"]
    /\ UNCHANGED <<chatVars, toolVars, ingestVars>>

\* requests raises (connection refused, body cut short): the except branch
ui_exception ==
    /\ ui.pc \in {"posted", "streaming"}
    /\ ui' = [ui EXCEPT !.pc = "finish", !.state = "system_error"]
    /\ UNCHANGED <<chatVars, toolVars, ingestVars>>

\* if full_response:
should_record(full_response, state) == full_response # <<>>

\* the end of the handler: the answer is added to the session's messages
ui_finish ==
    /\ ui.pc = "finish"
    /\ ui' = [ui EXCEPT !.pc = "idle",
                        !.messages = IF should_record(ui.full_response, ui.state)
                                     THEN Append(@, [role |-> "assistant",
                                                     content |-> ui.full_response])
                                     ELSE @]
    /\ UNCHANGED <<chatVars, toolVars, ingestVars>>

UiNext ==
    \/ \E prompt \in Prompts : ui_submit(prompt)
    \/ \E status_code \in {200, 500} : ui_response(status_code)
    \/ ui_chunk
    \/ ui_stream_end
    \/ ui_exception
    \/ ui_finish

UiInit ==
    ui = [messages |-> <<>>, full_response |-> <<>>, incoming |-> <<>>,
          state |-> "none", pc |-> "idle"]

\* ======================================================== specifications
Init == ChatInit /\ ToolInit /\ IngestInit /\ UiInit

\* the chat service
Spec == Init /\ [][Next]_vars
FairSpec == Spec /\ \A r \in Reqs : WF_vars(Step(r))

\* the tools, invoked one at a time
ToolSpec == Init /\ [][ToolNext]_vars

\* runs of ingest.py
IngestSpec == Init /\ [][IngestNext]_vars

\* the frontend's chat input handler
UiSpec == Init /\ [][UiNext]_vars

\* ================================================================ claims
Terminal == {"done", "failed", "cancelled", "rejected"}
Stored(t) == get_state(storage, t).messages
IdsIn(msgs) == {msgs[i].id : i \in 1..Len(msgs)}
MsgsOf(r, msgs) == SelectSeq(msgs, LAMBDA m : m.id[1] = r)
Referenced(t) == \E r \in Reqs : kind[r] # "none" /\ thread[r] = t

\* C1: two turns on one thread_id that both completed have both their user
\* message and their assistant reply in the stored history once no turn is
\* running on that thread.
C1_BothTurnsKept ==
    \A r1, r2 \in Reqs :
        (/\ r1 # r2
         /\ pc[r1] = "done" /\ pc[r2] = "done"
         /\ thread[r1] = thread[r2]
         /\ \A q \in Reqs : thread[q] = thread[r1] => pc[q] \in Terminal)
        => {<<r1, 0>>, <<r1, 1>>, <<r2, 0>>, <<r2, 1>>} \subseteq IdsIn(Stored(thread[r1]))

\* C2: after a turn whose model call failed, the stored conversation of its
\* thread holds no message of that turn.
C2_FailedTurnNotCommitted ==
    \A r \in Reqs :
        pc[r] = "failed" => MsgsOf(r, Stored(thread[r])) = <<>>

\* C3: after the caller disconnected during a /chatstream turn, the stored
\* conversation holds either nothing of that turn or its user message
\* followed by its complete assistant message.
C3_DisconnectAllOrNothing ==
    \A r \in Reqs :
        pc[r] = "cancelled" =>
            LET mine == MsgsOf(r, Stored(thread[r]))
            IN \/ mine = <<>>
               \/ /\ Len(mine) = 2
                  /\ mine[1].type = "human"
                  /\ mine[2].type = "ai"
                  /\ mine[2].content =
                        llm_invoke(r, 1, channel[r]).content

\* C4: when no turn is running on a thread, fetch-history returns 2N entries
\* for its N completed turns, with roles alternating from "user".
C4_TwoEntriesPerTurn ==
    \A t \in Threads :
        (\A q \in Reqs : thread[q] = t => pc[q] \in Terminal) =>
            LET h == get_chat_history(t).history
                N == Cardinality({q \in Reqs : thread[q] = t /\ pc[q] = "done"})
            IN /\ Len(h) = 2 * N
               /\ \A i \in 1..Len(h) :
                    h[i].role = IF i % 2 = 1 THEN "user" ELSE "assistant"

\* C5: every step leaves the stored history of every thread a prefix of
\* what it is afterwards.
C5_AppendOnly ==
    [][\A t \in Threads :
         IsPrefix(get_state(storage, t).messages, get_state(storage', t).messages)]_vars

\* C6: fetch-history of a thread_id no submitted turn has referenced answers
\* status 200 with the empty history.
C6_UnknownThreadEmpty ==
    \A t \in Threads :
        ~Referenced(t) => get_chat_history(t) = [status |-> 200, history |-> <<>>]

C6_Witness ==
    \E t, u \in Threads :
        /\ ~Referenced(t)
        /\ Len(get_chat_history(u).history) >= 2

\* C7: every message stored under a thread comes from a request on that
\* thread, and a step changes the checkpoints of no thread other than the
\* thread of the request that took it.
C7_NoCrossContamination ==
    [][/\ \A t \in Threads : \A i \in 1..Len(get_state(storage', t).messages) :
            thread'[get_state(storage', t).messages[i].id[1]] = t
       /\ \A t \in Threads : storage'[t] # storage[t] =>
            \E r \in Reqs : pc'[r] # pc[r] /\ thread'[r] = t]_vars

C7_Witness ==
    \E r1, r2 \in Reqs :
        /\ thread[r1] # thread[r2]
        /\ pc[r1] = "model" /\ pc[r2] = "done"
        /\ r1 < r2
        /\ Stored(thread[r1]) # <<>> /\ Stored(thread[r2]) # <<>>

\* C8: the fragments of a finished /chatstream turn concatenate to the
\* content stored as its assistant message, and to the text /chat returned
\* for the same message list.
SameInput(r1, r2) ==
    /\ Len(channel[r1]) = Len(channel[r2])
    /\ \A i \in 1..(Len(channel[r1]) - 1) :
        /\ channel[r1][i].type = channel[r2][i].type
        /\ channel[r1][i].content = channel[r2][i].content

C8_FragmentsEqualFullText ==
    \A r \in Reqs :
        (kind[r] = "stream" /\ pc[r] = "done") =>
            /\ Flatten(yielded[r]) = Last(channel[r]).content
            /\ \A i \in 1..Len(yielded[r]) : yielded[r][i] # <<>>
            /\ \A q \in Reqs :
                (kind[q] = "chat" /\ pc[q] = "done" /\ SameInput(r, q))
                    => resp[q] = Flatten(yielded[r])

C8_Witness ==
    \E r, q \in Reqs :
        /\ kind[r] = "stream" /\ pc[r] = "done"
        /\ kind[q] = "chat" /\ pc[q] = "done"
        /\ SameInput(r, q)
        /\ Len(yielded[r]) >= 2

\* C9: a turn ends only on an assistant message without tool_calls: the last
\* message of a finished turn requests no tool.
C9_ToolCallsContinueTurn ==
    \A r \in Reqs :
        pc[r] = "done" => Last(channel[r]).tool_calls = <<>>

C11_NoToolRaises ==
    tres.outcome # "raised"

\* C12 as stated: a filtered search with zero documents is retried once
\* without the filter, the no-documents text is returned only after an empty
\* unfiltered search, and with no filter or a non-empty filtered search
\* exactly one search is made.
IsAviationCall == tcall.tool = "get_aviation_info"
NoDocsText == <<"No relevant documents found in the database.">>
FirstSearchFiltered ==
    /\ Len(tres.searches) >= 1
    /\ tres.searches[1].kwargs.filtered
    /\ ~tres.searches[1].raised
RetryClause ==
    (truthy(tcall.args) /\ FirstSearchFiltered /\ tres.searches[1].hits = 0) =>
        /\ Len(tres.searches) = 2
        /\ ~tres.searches[2].kwargs.filtered
NoDocsClause ==
    tres.text = NoDocsText =>
        /\ tres.searches # <<>>
        /\ ~Last(tres.searches).kwargs.filtered
        /\ ~Last(tres.searches).raised
        /\ Last(tres.searches).hits = 0

C12_RetryOnceWithoutFilter ==
    IsAviationCall =>
        /\ RetryClause
        /\ NoDocsClause
        /\ (~truthy(tcall.args) \/ (FirstSearchFiltered /\ tres.searches[1].hits >= 1))
              => Len(tres.searches) = 1

\* C12 as amended: the same, the single search of the no-filter case being
\* made when the knowledge base is loaded; when it is offline no search is
\* made.
C12_RetryOnceWhenLoaded ==
    IsAviationCall =>
        /\ RetryClause
        /\ NoDocsClause
        /\ ((tcall.env.kb.online /\ ~truthy(tcall.args))
              \/ (FirstSearchFiltered /\ tres.searches[1].hits >= 1))
              => Len(tres.searches) = 1
        /\ ~tcall.env.kb.online => tres.searches = <<>>

C12_Witness ==
    /\ IsAviationCall
    /\ truthy(tcall.args)
    /\ FirstSearchFiltered /\ tres.searches[1].hits = 0
    /\ Len(tres.searches) = 2
    /\ tres.searches[2].hits >= 1
    /\ tres.text # NoDocsText

\* C13: a turn whose model call failed has answered status 500 with an
\* error text, on /chat and on /chatstream.
C13_ModelFailureIs500 ==
    \A r \in Reqs :
        pc[r] = "failed" => (status[r] = 500 /\ resp[r] # <<>>)

\* C14: every assistant entry of the session's message list is the whole
\* answer to the user entry before it.
C14_NoPartialAnswerRecorded ==
    \A i \in 1..Len(ui.messages) :
        ui.messages[i].role = "assistant" =>
            /\ i > 1
            /\ ui.messages[i].content = Flatten(stream_of(ui.messages[i - 1].content[1]))

\* C15: fetch-history has one entry per stored user message or assistant
\* answer, with role "user" or "assistant", and none for a stored tool-call
\* or tool-result message.
IsTurnMessage(m) == m.type = "human" \/ (m.type = "ai" /\ m.tool_calls = <<>>)

C15_HistoryHidesToolMessages ==
    \A t \in Threads :
        LET h == get_chat_history(t).history
        IN /\ \A i \in 1..Len(h) : h[i].role \in {"user", "assistant"}
           /\ Len(h) = Len(SelectSeq(Stored(t), IsTurnMessage))

\* C16: when the connection works and the server rendered and found the MP4,
\* generate_manim_animation returns the success text with a URL under
\* BACKEND_BASE_URL/assets.
C16_RenderedVideoGivesUrl ==
    (/\ tcall.tool = "generate_manim_animation"
     /\ tcall.env.conn = "ok"
     /\ tcall.env.render = "mp4")
    => /\ Len(tres.text) >= 3
       /\ tres.text[1] = "Animation generated successfully! Available at -"
       /\ tres.text[2] = BACKEND_BASE_URL
       /\ tres.text[3] = "/assets"

\* C17: the arrival of a submit-turn request whose body lacks thread_id or
\* message ends in a rejection: no model call, every thread's checkpoints
\* unchanged.
LacksField(b) == b.message = Missing \/ b.thread_id = NoThread

C17_InvalidRequestRejected ==
    [][\A r \in Reqs :
        (pc[r] = "idle" /\ pc'[r] # "idle" /\ LacksField(body'[r])) =>
            /\ pc'[r] = "rejected"
            /\ status'[r] = 422
            /\ rounds'[r] = 0
            /\ storage' = storage]_vars

C17_Witness ==
    \E r \in Reqs :
        /\ pc[r] = "rejected"
        /\ LacksField(body[r])
        /\ \E t \in Threads : storage[t] # <<>>

\* C18: get_calculator never raises; an expression with a character outside
\* allowed_chars gets the invalid-characters text and is not evaluated, any
\* other expression is evaluated and gets "Result:" or "Calculation Error:".
InvalidCharsText ==
    <<"Error: Invalid characters in math expression. Only numbers and basic operators allowed.">>

C18_CalculatorGuard ==
    tcall.tool = "get_calculator" =>
        /\ tres.outcome = "text"
        /\ IF \E i \in 1..Len(tcall.args) : tcall.args[i] \notin allowed_chars
           THEN tres.text = InvalidCharsText /\ ~tres.evaluated
           ELSE /\ tres.evaluated
                /\ \/ tres.text = <<"Result:", tcall.env.what>> /\ tcall.env.kind = "value"
                   \/ tres.text = <<"Calculation Error:", tcall.env.what>>
                      /\ tcall.env.kind = "exception"

C18_Witness ==
    /\ tcall.tool = "get_calculator"
    /\ \E i, j \in 1..Len(tcall.args) :
        tcall.args[i] \in allowed_chars /\ tcall.args[j] \notin allowed_chars
    /\ tres.text = InvalidCharsText

\* C19: a documented airline_filter, in any letter case, is searched with a
\* publisher that some registry file has.
C19_DocumentedFilterIsPublisher ==
    (/\ IsAviationCall
     /\ tcall.args.given
     /\ \E d \in DocumentedFilters : lower(tcall.args.value) = lower(d)
     /\ tres.searches # <<>>)
    => /\ tres.searches[1].kwargs.filtered
       /\ tres.searches[1].kwargs.publisher \in RegistryPublishers

\* C20: no run stores a file's chunks a second time, and a run that follows
\* a successful run with the same files on disk returns "skipped" and leaves
\* the store unchanged.
C20_IngestIdempotent ==
    [][runs' = runs + 1 =>
        /\ \A f \in RegistryFiles : db'[f] <= 1
        /\ (ingest_ret.status = "success" /\ ingest_ret.disk = disk) =>
              (ingest_ret'.status = "skipped" /\ db' = db)]_vars

====
